---- MODULE Spec2Model ----
(***************************************************************************)
(* A model of src/tar/src/evaluate.py: the indexing of two SQuAD-shaped    *)
(* datasets by question id (content_to_qids), their alignment              *)
(* (align_content) and the main script that asserts the aligned lengths,   *)
(* writes the text files and computes the BLEU score.                      *)
(*                                                                         *)
(* A text is a sequence of characters.  A JSON object is a record whose    *)
(* DOMAIN is the set of keys it holds, so that a missing field is a key    *)
(* outside the DOMAIN.  A Python dict (insertion-ordered) of text -> list  *)
(* of ids is a sequence of [key, qids] entries with pairwise distinct keys.*)
(***************************************************************************)
EXTENDS Naturals, Sequences, FiniteSets

VARIABLES
    dataset_ref,            \* json.load(rf)
    dataset_tra,            \* json.load(tf)
    no_eval_answers,        \* args.no_eval_answers
    lang,                   \* args.lang
    pc,                     \* the position of the script
    context_to_qids_ref,    \* the three indices of the reference dataset
    questions_to_qids_ref,
    answers_to_qids_ref,
    context_to_qids_tra,    \* the three indices of the translated dataset
    questions_to_qids_tra,
    answers_to_qids_tra,
    references,             \* the list accumulated / returned by align_content
    translations,
    references_txt,         \* <<>> while unwritten, else <<the lines written>>
    translations_txt,
    score,                  \* <<>> while not computed, else <<the score>>
    bleu_txt                \* <<>> while unwritten, else <<the text written>>

vars == <<dataset_ref, dataset_tra, no_eval_answers, lang, pc,
          context_to_qids_ref, questions_to_qids_ref, answers_to_qids_ref,
          context_to_qids_tra, questions_to_qids_tra, answers_to_qids_tra,
          references, translations, references_txt, translations_txt,
          score, bleu_txt>>

inputs == <<dataset_ref, dataset_tra, no_eval_answers, lang>>
indices == <<context_to_qids_ref, questions_to_qids_ref, answers_to_qids_ref,
             context_to_qids_tra, questions_to_qids_tra, answers_to_qids_tra>>
outputs == <<references_txt, translations_txt, score, bleu_txt>>

---------------------------------------------------------------------------
(* Texts *)

LF == "\n"
CR == "\r"

Range(s) == {s[i] : i \in DOMAIN s}

\* Mutant: the carriage returns are left in
remove_line_feeds(text) == SelectSeq(text, LAMBDA c : c # LF)

\* text.replace("\n", "") and then text.replace("\r", "")
remove_line_breaks(text) ==
    LET text1 == SelectSeq(text, LAMBDA c : c # LF)
    IN  SelectSeq(text1, LAMBDA c : c # CR)

---------------------------------------------------------------------------
(* content_to_qids *)

Has(obj, field) == field \in DOMAIN obj

\* defaultdict(list): d[key].append(id) creates the entry of a new key at the
\* end of the dict and appends to the list of a key already there.
DictAppend(dict, key, id) ==
    IF \E i \in DOMAIN dict : dict[i].key = key
    THEN [i \in DOMAIN dict |->
            IF dict[i].key = key
            THEN [dict[i] EXCEPT !.qids = Append(@, id)]
            ELSE dict[i]]
    ELSE Append(dict, [key |-> key, qids |-> <<id>>])

EmptyIndices ==
    [error |-> FALSE,
     context_to_qids |-> <<>>, questions_to_qids |-> <<>>, answers_to_qids |-> <<>>]

KeyError(st) == [st EXCEPT !.error = TRUE]

\* Mutant: a question with several answers is admitted too
IncludedWithAnswers(qa) == Len(qa.answers) >= 1

\* len(qa['answers']) == 1: the test that admits a question to the indices
Included(qa) == Len(qa.answers) = 1

\* The body of the innermost loop, for one question of one paragraph.  The
\* fields are read in the order of the code; a read of a missing key raises.
VisitQa(st, par, qa, no_eval) ==
    IF st.error THEN st
    ELSE IF ~Has(qa, "answers") THEN KeyError(st)
    ELSE IF ~Included(qa) THEN st
    ELSE IF ~Has(par, "context") THEN KeyError(st)
    ELSE IF ~Has(qa, "id") THEN KeyError(st)
    ELSE IF ~Has(qa, "question") THEN KeyError(st)
    ELSE LET st1 == [st EXCEPT
                       !.context_to_qids =
                           DictAppend(@, remove_line_breaks(par.context), qa.id),
                       !.questions_to_qids =
                           DictAppend(@, qa.question, qa.id)]
         IN  IF no_eval THEN st1
             ELSE IF ~Has(qa.answers[1], "text") THEN KeyError(st1)
             ELSE [st1 EXCEPT !.answers_to_qids =
                                  DictAppend(@, qa.answers[1].text, qa.id)]

RECURSIVE VisitQas(_, _, _, _)
VisitQas(st, par, k, no_eval) ==
    IF st.error \/ k > Len(par.qas) THEN st
    ELSE VisitQas(VisitQa(st, par, par.qas[k], no_eval), par, k + 1, no_eval)

\* Mutant: a paragraph without 'qas' is skipped (par.get('qas', []))
VisitParLenient(st, par, no_eval) ==
    IF st.error \/ ~Has(par, "qas") THEN st
    ELSE VisitQas(st, par, 1, no_eval)

VisitPar(st, par, no_eval) ==
    IF st.error THEN st
    ELSE IF ~Has(par, "qas") THEN KeyError(st)
    ELSE VisitQas(st, par, 1, no_eval)

RECURSIVE VisitPars(_, _, _, _)
VisitPars(st, data, k, no_eval) ==
    IF st.error \/ k > Len(data.paragraphs) THEN st
    ELSE VisitPars(VisitPar(st, data.paragraphs[k], no_eval), data, k + 1, no_eval)

VisitData(st, data, no_eval) ==
    IF st.error THEN st
    ELSE IF ~Has(data, "paragraphs") THEN KeyError(st)
    ELSE VisitPars(st, data, 1, no_eval)

RECURSIVE VisitDataset(_, _, _, _)
VisitDataset(st, dataset, k, no_eval) ==
    IF st.error \/ k > Len(dataset.data) THEN st
    ELSE VisitDataset(VisitData(st, dataset.data[k], no_eval), dataset, k + 1, no_eval)

\* Mutant: with answers excluded, the questions are left out of their index too
content_to_qids_gated(dataset, no_eval) ==
    LET r == IF ~Has(dataset, "data") THEN KeyError(EmptyIndices)
             ELSE VisitDataset(EmptyIndices, dataset, 1, no_eval)
    IN  IF no_eval THEN [r EXCEPT !.questions_to_qids = <<>>] ELSE r

\* The result of content_to_qids: the three dicts, or error = TRUE when the
\* traversal raised KeyError (and nothing is returned).
content_to_qids(dataset, no_eval) ==
    IF ~Has(dataset, "data") THEN KeyError(EmptyIndices)
    ELSE VisitDataset(EmptyIndices, dataset, 1, no_eval)

---------------------------------------------------------------------------
(* align_content *)

\* for content_ref, qids_ref in d_ref.items():
\*     for content_tra, qids_tra in d_tra.items():
\* the (ref entry, tra entry) combinations in the order the loops visit them
RECURSIVE InnerLoop(_, _, _)
InnerLoop(entry_ref, d_tra, j) ==
    IF j > Len(d_tra) THEN <<>>
    ELSE <<[content_ref |-> entry_ref.key, qids_ref |-> entry_ref.qids,
            content_tra |-> d_tra[j].key, qids_tra |-> d_tra[j].qids]>>
         \o InnerLoop(entry_ref, d_tra, j + 1)

RECURSIVE OuterLoop(_, _, _)
OuterLoop(d_ref, d_tra, i) ==
    IF i > Len(d_ref) THEN <<>>
    ELSE InnerLoop(d_ref[i], d_tra, 1) \o OuterLoop(d_ref, d_tra, i + 1)

\* Mutant: the test of the question loops, used for the contexts
ShareQidEqual(qids_tra, qids_ref) == qids_tra = qids_ref

\* if set(qids_tra).intersection(set(qids_ref)):
ShareQid(qids_tra, qids_ref) == Range(qids_tra) \cap Range(qids_ref) # {}

\* Mutant: the lists compared as sets
SameQidsAsSets(qids_tra, qids_ref) == Range(qids_tra) = Range(qids_ref)

\* if qids_tra == qids_ref:
SameQids(qids_tra, qids_ref) == qids_tra = qids_ref

\* The visits of the context loops that append
ContextVisits(d_ref, d_tra) ==
    SelectSeq(OuterLoop(d_ref, d_tra, 1),
              LAMBDA v : ShareQid(v.qids_tra, v.qids_ref))

\* The visits of the question loops that append
QuestionVisits(d_ref, d_tra) ==
    SelectSeq(OuterLoop(d_ref, d_tra, 1),
              LAMBDA v : SameQids(v.qids_tra, v.qids_ref))

\* The visits of the answer loops that append.  Both loops of the code run
\* over answers_to_qids_ref (lines 70-71); a_tra is not read.
AnswerVisits(a_ref, a_tra) ==
    SelectSeq(OuterLoop(a_ref, a_ref, 1),
              LAMBDA v : SameQids(v.qids_tra, v.qids_ref))

RefsOf(visits) == [k \in DOMAIN visits |-> visits[k].content_ref]
TrasOf(visits) == [k \in DOMAIN visits |-> visits[k].content_tra]

\* list(OrderedSet(items)): each item kept at its first occurrence
RECURSIVE OrderedSetAdd(_, _, _)
OrderedSetAdd(items, k, out) ==
    IF k > Len(items) THEN out
    ELSE OrderedSetAdd(items, k + 1,
                       IF items[k] \in Range(out) THEN out ELSE Append(out, items[k]))

\* Mutant: each item kept at its last occurrence
OrderedSetKeepLast(items) ==
    LET keep == {k \in DOMAIN items : \A j \in (k + 1)..Len(items) : items[j] # items[k]}
    IN  [n \in 1..Cardinality(keep) |->
            items[CHOOSE k \in keep : Cardinality({j \in keep : j <= k}) = n]]

OrderedSet(items) == OrderedSetAdd(items, 1, <<>>)

---------------------------------------------------------------------------
(* External collaborators, left uninterpreted *)

\* tokenizer.tokenize(text, return_str=True) of sacremoses
MosesTokenize(text) == <<"MosesTokenizer(">> \o text \o <<")">>

\* list_bleu([references], translations)
list_bleu(refs, hyps) == [refs |-> refs, hyps |-> hyps]

---------------------------------------------------------------------------
(* The steps of align_content and of the main script *)

\* line 47: content_to_qids(dataset_ref, no_eval_answers)
IndexRef ==
    /\ pc = "index_ref"
    /\ LET r == content_to_qids(dataset_ref, no_eval_answers)
       IN  IF r.error
           THEN /\ pc' = "KeyError"
                /\ UNCHANGED <<context_to_qids_ref, questions_to_qids_ref,
                               answers_to_qids_ref>>
           ELSE /\ pc' = "index_tra"
                /\ context_to_qids_ref' = r.context_to_qids
                /\ questions_to_qids_ref' = r.questions_to_qids
                /\ answers_to_qids_ref' = r.answers_to_qids
    /\ UNCHANGED <<inputs, context_to_qids_tra, questions_to_qids_tra,
                   answers_to_qids_tra, references, translations, outputs>>

\* line 48: content_to_qids(dataset_tra, no_eval_answers)
IndexTra ==
    /\ pc = "index_tra"
    /\ LET r == content_to_qids(dataset_tra, no_eval_answers)
       IN  IF r.error
           THEN /\ pc' = "KeyError"
                /\ UNCHANGED <<context_to_qids_tra, questions_to_qids_tra,
                               answers_to_qids_tra>>
           ELSE /\ pc' = "align_context"
                /\ context_to_qids_tra' = r.context_to_qids
                /\ questions_to_qids_tra' = r.questions_to_qids
                /\ answers_to_qids_tra' = r.answers_to_qids
    /\ UNCHANGED <<inputs, context_to_qids_ref, questions_to_qids_ref,
                   answers_to_qids_ref, references, translations, outputs>>

\* lines 50-59: the context loops
AlignContext ==
    /\ pc = "align_context"
    /\ LET visits == ContextVisits(context_to_qids_ref, context_to_qids_tra)
       IN  /\ references' = references \o RefsOf(visits)
           /\ translations' = translations \o TrasOf(visits)
    /\ pc' = "align_questions"
    /\ UNCHANGED <<inputs, indices, outputs>>

\* lines 61-68: the question loops
AlignQuestions ==
    /\ pc = "align_questions"
    /\ LET visits == QuestionVisits(questions_to_qids_ref, questions_to_qids_tra)
       IN  /\ references' = references \o RefsOf(visits)
           /\ translations' = translations \o TrasOf(visits)
    /\ pc' = "align_answers"
    /\ UNCHANGED <<inputs, indices, outputs>>

\* lines 70-76: the answer loops
AlignAnswers ==
    /\ pc = "align_answers"
    /\ LET visits == AnswerVisits(answers_to_qids_ref, answers_to_qids_tra)
       IN  /\ references' = references \o RefsOf(visits)
           /\ translations' = translations \o TrasOf(visits)
    /\ pc' = "dedup"
    /\ UNCHANGED <<inputs, indices, outputs>>

\* lines 78-80: each list through OrderedSet, and the return
Dedup ==
    /\ pc = "dedup"
    /\ references' = OrderedSet(references)
    /\ translations' = OrderedSet(translations)
    /\ pc' = "assert"
    /\ UNCHANGED <<inputs, indices, outputs>>

\* Mutant: the assertion is not evaluated (python -O)
AssertSkipped ==
    /\ pc = "assert"
    /\ pc' = "tokenize"
    /\ UNCHANGED <<inputs, indices, references, translations, outputs>>

\* line 104: assert len(references) == len(translations)
AssertAligned ==
    /\ pc = "assert"
    /\ pc' = IF Len(references) = Len(translations) THEN "tokenize" ELSE "AssertionError"
    /\ UNCHANGED <<inputs, indices, references, translations, outputs>>

\* lines 107-110: the lists are tokenized when lang is zh
Tokenize ==
    /\ pc = "tokenize"
    /\ IF lang \in {"zh"}
       THEN /\ references' = [k \in DOMAIN references |-> MosesTokenize(references[k])]
            /\ translations' = [k \in DOMAIN translations |-> MosesTokenize(translations[k])]
       ELSE UNCHANGED <<references, translations>>
    /\ pc' = "write_texts"
    /\ UNCHANGED <<inputs, indices, outputs>>

\* lines 113-116: references.txt and translations.txt
WriteTexts ==
    /\ pc = "write_texts"
    /\ references_txt' = <<references>>
    /\ translations_txt' = <<translations>>
    /\ pc' = "bleu"
    /\ UNCHANGED <<inputs, indices, references, translations, score, bleu_txt>>

\* line 118: score = bleu(references, translations)
\* list_bleu is an external routine: what it does with no segment at all is
\* not fixed by this code (a score, or an exception that ends the script).
ComputeBleu ==
    /\ pc = "bleu"
    /\ \/ /\ score' = <<list_bleu(references, translations)>>
          /\ pc' = "write_bleu"
       \/ /\ references = <<>>
          /\ pc' = "BleuError"
          /\ UNCHANGED score
    /\ UNCHANGED <<inputs, indices, references, translations,
                   references_txt, translations_txt, bleu_txt>>

\* lines 120-121: bleu.txt
WriteBleu ==
    /\ pc = "write_bleu"
    /\ bleu_txt' = <<<<"BLEU = ", score[1]>>>>
    /\ pc' = "done"
    /\ UNCHANGED <<inputs, indices, references, translations,
                   references_txt, translations_txt, score>>

---------------------------------------------------------------------------
(* Input datasets *)

SeqsUpTo(S, n) == UNION {[1..k -> S] : k \in 0..n}

RemoveField(obj, field) == [f \in DOMAIN obj \ {field} |-> obj[f]]

Answer(text) == [text |-> text, answer_start |-> 0]
Qa(id, question, answers) == [id |-> id, question |-> question, answers |-> answers]

\* A dataset is drawn as a sequence of rows: a row opens a document ("doc") or
\* a paragraph ("par") with its context, or stays in the current paragraph
\* ("same"), and adds its question there.
NewPar(row) == [context |-> row.context, qas |-> row.qas]

AddRow(docs, row) ==
    IF docs = <<>> \/ row.brk = "doc"
    THEN Append(docs, [title |-> <<"t">>, paragraphs |-> <<NewPar(row)>>])
    ELSE LET d == Len(docs)
             p == Len(docs[d].paragraphs)
         IN  IF row.brk = "par"
             THEN [docs EXCEPT ![d].paragraphs = Append(@, NewPar(row))]
             ELSE [docs EXCEPT ![d].paragraphs[p].qas = @ \o row.qas]

RECURSIVE AddRows(_, _, _)
AddRows(docs, rows, k) ==
    IF k > Len(rows) THEN docs ELSE AddRows(AddRow(docs, rows[k]), rows, k + 1)

Build(rows) == [data |-> AddRows(<<>>, rows, 1)]

\* The rows over the given pools; each carries one question, and a row that
\* stays in the paragraph carries no context of its own.
Rows(brks, contexts, qas) ==
    [brk : brks \ {"same"}, context : contexts, qas : {<<qa>> : qa \in qas}]
    \cup [brk : brks \cap {"same"}, context : {<<>>}, qas : {<<qa>> : qa \in qas}]

\* The sequences of at most n rows; the first row opens a document
RowSeqs(rows, n) ==
    {rs \in SeqsUpTo(rows, n) : rs # <<>> => rs[1].brk = "doc"}

DocPaths(ds) == DOMAIN ds.data
ParPaths(ds) ==
    UNION {{<<d, p>> : p \in DOMAIN ds.data[d].paragraphs} : d \in DocPaths(ds)}
QaPaths(ds) ==
    UNION {{<<dp[1], dp[2], q>> : q \in DOMAIN ds.data[dp[1]].paragraphs[dp[2]].qas}
           : dp \in ParPaths(ds)}
AnswerPaths(ds) ==
    UNION {{<<x[1], x[2], x[3], a>>
              : a \in DOMAIN ds.data[x[1]].paragraphs[x[2]].qas[x[3]].answers}
           : x \in QaPaths(ds)}

\* The datasets got from a well-formed one by taking one field away
Malformed(ds) ==
    {RemoveField(ds, "data")}
    \cup {[ds EXCEPT !.data[d] = RemoveField(@, "paragraphs")] : d \in DocPaths(ds)}
    \cup {[ds EXCEPT !.data[x[1]].paragraphs[x[2]] = RemoveField(@, f)]
            : x \in ParPaths(ds), f \in {"context", "qas"}}
    \cup {[ds EXCEPT !.data[x[1]].paragraphs[x[2]].qas[x[3]] = RemoveField(@, f)]
            : x \in QaPaths(ds), f \in {"id", "question", "answers"}}
    \cup {[ds EXCEPT !.data[x[1]].paragraphs[x[2]].qas[x[3]].answers[x[4]] =
                        RemoveField(@, "text")]
            : x \in AnswerPaths(ds)}

---------------------------------------------------------------------------
(* Bounds and pools of the inputs *)

MaxIndexRows == 2
MaxRefRows == 2
MaxTraRows == 2

\* Rows for the indexer alone: documents, paragraphs whose contexts differ
\* only in line breaks, questions with no, one or two answers, texts with
\* line breaks.
IndexContexts == {<<"a">>, <<LF, "a", CR>>, <<"b", LF>>}
IndexAnswers ==
    {<<>>, <<Answer(<<"x", CR>>)>>, <<Answer(<<"x", CR>>), Answer(<<"y">>)>>}
IndexQas ==
    {Qa(1, <<"q", LF>>, answers) : answers \in IndexAnswers}
    \cup {Qa(2, <<"q">>, answers) : answers \in IndexAnswers}
IndexRows == Rows({"doc", "par", "same"}, IndexContexts, IndexQas)

\* Rows for the alignment: documents of one paragraph; the reference has
\* contexts "a" and "b", question text "q", answer text "x" and a question
\* with two answers;
\* the translation has contexts "a" and "u", question text "u" (a text may
\* occur as a context and as a question), answer text "y".
RefContexts == {<<"a">>, <<"b">>}
TraContexts == {<<"a">>, <<"u">>}
RefQas1 == {Qa(id, <<"q">>, <<Answer(<<"x">>)>>) : id \in {1, 2}}
RefQas == RefQas1 \cup {Qa(2, <<"p">>, <<Answer(<<"x">>), Answer(<<"z">>)>>)}
TraQas == {Qa(id, <<"u">>, <<Answer(<<"y">>)>>) : id \in {1, 2}}
RefRows == Rows({"doc", "same"}, RefContexts, RefQas)
RefRows1 == Rows({"doc", "same"}, RefContexts, RefQas1)
TraRows == Rows({"doc", "same"}, TraContexts, TraQas)

---------------------------------------------------------------------------
(* Specifications *)

InitProgram ==
    /\ pc = "index_ref"
    /\ context_to_qids_ref = <<>> /\ questions_to_qids_ref = <<>>
    /\ answers_to_qids_ref = <<>>
    /\ context_to_qids_tra = <<>> /\ questions_to_qids_tra = <<>>
    /\ answers_to_qids_tra = <<>>
    /\ references = <<>> /\ translations = <<>>
    /\ references_txt = <<>> /\ translations_txt = <<>>
    /\ score = <<>> /\ bleu_txt = <<>>

\* The whole script
Init ==
    /\ \E rows \in RowSeqs(RefRows1, MaxRefRows) : dataset_ref = Build(rows)
    /\ \E rows \in RowSeqs(TraRows, MaxTraRows) : dataset_tra = Build(rows)
    /\ no_eval_answers \in BOOLEAN
    /\ lang \in {"en", "zh"}
    /\ InitProgram

Next ==
    \/ IndexRef \/ IndexTra
    \/ AlignContext \/ AlignQuestions \/ AlignAnswers \/ Dedup
    \/ AssertAligned \/ Tokenize \/ WriteTexts \/ ComputeBleu \/ WriteBleu

Spec == Init /\ [][Next]_vars

\* align_content alone, up to its return
InitAlign ==
    /\ \E rows \in RowSeqs(RefRows, MaxRefRows) : dataset_ref = Build(rows)
    /\ \E rows \in RowSeqs(TraRows, MaxTraRows) : dataset_tra = Build(rows)
    /\ no_eval_answers \in BOOLEAN
    /\ lang = "en"
    /\ InitProgram

NextAlign ==
    \/ IndexRef \/ IndexTra
    \/ AlignContext \/ AlignQuestions \/ AlignAnswers \/ Dedup

SpecAlign == InitAlign /\ [][NextAlign]_vars

\* content_to_qids alone, on one dataset given as both files: a well-formed
\* dataset, or one with a single field taken away
InitIndex ==
    /\ \E rows \in RowSeqs(IndexRows, MaxIndexRows) :
           dataset_ref \in {Build(rows)} \cup Malformed(Build(rows))
    /\ dataset_tra = dataset_ref
    /\ no_eval_answers \in BOOLEAN
    /\ lang = "en"
    /\ InitProgram

NextIndex == IndexRef \/ IndexTra

SpecIndex == InitIndex /\ [][NextIndex]_vars

---------------------------------------------------------------------------
(* Properties of content_to_qids (checked under SpecIndex) *)

\* The reference dataset has been indexed and content_to_qids returned
IndexedRef == pc \in {"index_tra", "align_context"}
\* Both datasets have been indexed
IndexedTra == pc = "align_context"

ParAt(ds, x) == ds.data[x[1]].paragraphs[x[2]]
QaAt(ds, x) == ds.data[x[1]].paragraphs[x[2]].qas[x[3]]

\* The ids found in the identifier lists of an index
IdsIn(index) == UNION {Range(index[i].qids) : i \in DOMAIN index}

\* No two questions of the dataset carry the same id
UniqueIds(ds) ==
    \A x, y \in QaPaths(ds) :
        (x # y /\ Has(QaAt(ds, x), "id") /\ Has(QaAt(ds, y), "id"))
            => QaAt(ds, x).id # QaAt(ds, y).id

\* In the three indices returned for ds, the id of each question occurs
\* exactly when the question has one answer
OnlySingleAnswerIds(ds, c, q, a, no_eval) ==
    \A x \in QaPaths(ds) :
        LET qa == QaAt(ds, x)
        IN  Has(qa, "id") =>
              /\ qa.id \in IdsIn(c) <=> Len(qa.answers) = 1
              /\ qa.id \in IdsIn(q) <=> Len(qa.answers) = 1
              /\ ~no_eval => (qa.id \in IdsIn(a) <=> Len(qa.answers) = 1)

\* C3: for a dataset with unique question ids, an id occurs in the identifier
\* lists of the context index and of the question index (and of the answer
\* index when answers are included) if and only if its question has exactly
\* one answer.
C3_SingleAnswerIds ==
    /\ (IndexedRef /\ UniqueIds(dataset_ref)) =>
           OnlySingleAnswerIds(dataset_ref, context_to_qids_ref,
                               questions_to_qids_ref, answers_to_qids_ref,
                               no_eval_answers)
    /\ (IndexedTra /\ UniqueIds(dataset_tra)) =>
           OnlySingleAnswerIds(dataset_tra, context_to_qids_tra,
                               questions_to_qids_tra, answers_to_qids_tra,
                               no_eval_answers)

\* C3 witness: a dataset with unique ids, one question with one answer and
\* one with two, indexed with answers included.
C3_Witness ==
    /\ IndexedTra /\ ~no_eval_answers /\ UniqueIds(dataset_ref)
    /\ \E x, y \in QaPaths(dataset_ref) :
          /\ Len(QaAt(dataset_ref, x).answers) = 1
          /\ Len(QaAt(dataset_ref, y).answers) = 2
          /\ Has(QaAt(dataset_ref, x), "id") /\ Has(QaAt(dataset_ref, y), "id")
          /\ QaAt(dataset_ref, x).id \in IdsIn(answers_to_qids_ref)

\* Some document, paragraph, question or answer of ds lacks an expected field
LacksField(ds) ==
    \/ ~Has(ds, "data")
    \/ \E d \in DOMAIN ds.data :
          \/ ~Has(ds.data[d], "paragraphs")
          \/ \E p \in DOMAIN ds.data[d].paragraphs :
                LET par == ds.data[d].paragraphs[p]
                IN  \/ ~Has(par, "context")
                    \/ ~Has(par, "qas")
                    \/ \E q \in DOMAIN par.qas :
                          \/ ~Has(par.qas[q], "id")
                          \/ ~Has(par.qas[q], "question")
                          \/ ~Has(par.qas[q], "answers")
                          \/ \E a \in DOMAIN par.qas[q].answers :
                                ~Has(par.qas[q].answers[a], "text")

\* The traversal of ds reads a field that is missing: a container of every
\* level, and the fields of a question with exactly one answer.
ReadsMissingField(ds, no_eval) ==
    \/ ~Has(ds, "data")
    \/ \E d \in DOMAIN ds.data :
          \/ ~Has(ds.data[d], "paragraphs")
          \/ \E p \in DOMAIN ds.data[d].paragraphs :
                LET par == ds.data[d].paragraphs[p]
                IN  \/ ~Has(par, "qas")
                    \/ \E q \in DOMAIN par.qas :
                          \/ ~Has(par.qas[q], "answers")
                          \/ /\ Len(par.qas[q].answers) = 1
                             /\ \/ ~Has(par, "context")
                                \/ ~Has(par.qas[q], "id")
                                \/ ~Has(par.qas[q], "question")
                                \/ ~no_eval /\ ~Has(par.qas[q].answers[1], "text")

\* C6 as stated: a dataset in which some document, paragraph, question or
\* answer lacks an expected field never gets indexed; content_to_qids ends in
\* the fatal error.
C6_Original ==
    (pc # "index_ref" /\ LacksField(dataset_ref)) => pc = "KeyError"

\* C6 amended: content_to_qids ends in the fatal error exactly when its
\* traversal reads a missing field.
C6_FatalIffRead ==
    pc # "index_ref" =>
        (pc = "KeyError" <=> ReadsMissingField(dataset_ref, no_eval_answers))

\* C6 witness: a question with exactly one answer lacks its id, and the
\* indexing has ended in the fatal error.
C6_Witness ==
    /\ pc = "KeyError"
    /\ Has(dataset_ref, "data")
    /\ \E d \in DOMAIN dataset_ref.data :
          /\ Has(dataset_ref.data[d], "paragraphs")
          /\ \E p \in DOMAIN dataset_ref.data[d].paragraphs :
                LET par == dataset_ref.data[d].paragraphs[p]
                IN  /\ Has(par, "qas")
                    /\ \E q \in DOMAIN par.qas :
                          /\ Has(par.qas[q], "answers")
                          /\ Len(par.qas[q].answers) = 1
                          /\ ~Has(par.qas[q], "id")

\* The text with its line feeds and carriage returns left out: the n-th
\* character of the result is the n-th character of text that is neither
Kept(text) == {i \in DOMAIN text : text[i] \notin {LF, CR}}
NthKept(text, n) ==
    CHOOSE i \in Kept(text) : Cardinality({j \in Kept(text) : j <= i}) = n
Stripped(text) == [n \in 1..Cardinality(Kept(text)) |-> text[NthKept(text, n)]]

\* The questions of ds that have exactly one answer
IncludedPaths(ds) == {x \in QaPaths(ds) : Len(QaAt(ds, x).answers) = 1}

\* x is traversed before y, or is y
NotAfter(x, y) ==
    \/ x[1] < y[1]
    \/ x[1] = y[1] /\ x[2] < y[2]
    \/ x[1] = y[1] /\ x[2] = y[2] /\ x[3] <= y[3]

\* index holds one entry per text that TextOf gives to an included question
\* of ds, and the entry lists, in traversal order, the ids of the included
\* questions with that text
IndexOf(index, ds, TextOf(_)) ==
    /\ \A i, j \in DOMAIN index : i # j => index[i].key # index[j].key
    /\ {index[i].key : i \in DOMAIN index} = {TextOf(x) : x \in IncludedPaths(ds)}
    /\ \A i \in DOMAIN index :
          LET P == {x \in IncludedPaths(ds) : TextOf(x) = index[i].key}
          IN  /\ Len(index[i].qids) = Cardinality(P)
              /\ \A x \in P :
                    index[i].qids[Cardinality({y \in P : NotAfter(y, x)})]
                        = QaAt(ds, x).id

KeysAsClaimed(ds, c, q, a, no_eval) ==
    /\ \A i \in DOMAIN c : \A k \in DOMAIN c[i].key : c[i].key[k] \notin {LF, CR}
    /\ IndexOf(c, ds, LAMBDA x : Stripped(ParAt(ds, x).context))
    /\ IndexOf(q, ds, LAMBDA x : QaAt(ds, x).question)
    /\ ~no_eval => IndexOf(a, ds, LAMBDA x : QaAt(ds, x).answers[1].text)

\* C10: every key of the context index is a paragraph's context with all
\* line feeds and carriage returns removed, its id list being the ids of the
\* included questions of all paragraphs with that stripped context, in
\* traversal order; question and answer keys are the unmodified texts.
C10_Keys ==
    /\ IndexedRef =>
           KeysAsClaimed(dataset_ref, context_to_qids_ref, questions_to_qids_ref,
                         answers_to_qids_ref, no_eval_answers)
    /\ IndexedTra =>
           KeysAsClaimed(dataset_tra, context_to_qids_tra, questions_to_qids_tra,
                         answers_to_qids_tra, no_eval_answers)

\* C10 witness: two paragraphs whose contexts differ only in line breaks share
\* one context key listing the ids of both, and a question key keeps its line
\* feed.
C10_Witness ==
    /\ IndexedTra
    /\ \E x, y \in IncludedPaths(dataset_ref) :
          /\ <<x[1], x[2]>> # <<y[1], y[2]>>
          /\ ParAt(dataset_ref, x).context # ParAt(dataset_ref, y).context
          /\ \E i \in DOMAIN context_to_qids_ref :
                context_to_qids_ref[i].qids
                    = <<QaAt(dataset_ref, x).id, QaAt(dataset_ref, y).id>>
    /\ \E i \in DOMAIN questions_to_qids_ref :
          LF \in Range(questions_to_qids_ref[i].key)

---------------------------------------------------------------------------
(* Properties of align_content (checked under SpecAlign) *)

\* The two id lists have an id in common
Overlap(qids1, qids2) == \E i \in DOMAIN qids1 : \E j \in DOMAIN qids2 : qids1[i] = qids2[j]

\* The two id lists are the same sequence
EqualSeq(qids1, qids2) ==
    Len(qids1) = Len(qids2) /\ \A i \in DOMAIN qids1 : qids1[i] = qids2[i]

\* The (reference entry, translated entry) positions that pass the test
Matches(R, T, Test(_, _)) ==
    {m \in (DOMAIN R) \X (DOMAIN T) : Test(R[m[1]].qids, T[m[2]].qids)}

\* The place of m among the matches M, reference-major and translated-minor
RankIn(m, M) ==
    Cardinality({n \in M : n[1] < m[1] \/ (n[1] = m[1] /\ n[2] <= m[2])})

\* refs1 and tras1 are refs0 and tras0 with one pair (key of R, key of T)
\* appended per match of the test, and nothing else, in index order
AppendedJoin(refs0, tras0, refs1, tras1, R, T, Test(_, _)) ==
    LET M == Matches(R, T, Test)
    IN  /\ Len(refs1) = Len(refs0) + Cardinality(M)
        /\ Len(tras1) = Len(tras0) + Cardinality(M)
        /\ SubSeq(refs1, 1, Len(refs0)) = refs0
        /\ SubSeq(tras1, 1, Len(tras0)) = tras0
        /\ \A m \in M :
              /\ refs1[Len(refs0) + RankIn(m, M)] = R[m[1]].key
              /\ tras1[Len(tras0) + RankIn(m, M)] = T[m[2]].key

\* C1 as stated: when align_content returns, the two lists have the same
\* length, so that the assertion of the caller holds.
C1_EqualLength ==
    pc = "assert" => Len(references) = Len(translations)

\* C2 as stated: the answer pass appends one pair (reference answer,
\* translated answer) per key of the reference answer index and key of the
\* translated answer index whose id lists are the same sequence, and nothing
\* else.
C2_AnswerJoin ==
    [][pc = "align_answers" =>
          AppendedJoin(references, translations, references', translations',
                       answers_to_qids_ref, answers_to_qids_tra, EqualSeq)]_vars

\* C4: the context pass appends the pair (r, t) for every reference context
\* key r and translated context key t whose id lists share an id, and only
\* those, in reference-major, translated-minor index order.
C4_ContextJoin ==
    [][pc = "align_context" =>
          AppendedJoin(references, translations, references', translations',
                       context_to_qids_ref, context_to_qids_tra, Overlap)]_vars

\* C4 witness: after the context pass, a pair whose id lists overlap without
\* being equal has been appended, among several pairs.
C4_Witness ==
    /\ pc = "align_questions"
    /\ Len(references) >= 2
    /\ \E i \in DOMAIN context_to_qids_ref : \E j \in DOMAIN context_to_qids_tra :
          /\ Overlap(context_to_qids_ref[i].qids, context_to_qids_tra[j].qids)
          /\ context_to_qids_ref[i].qids # context_to_qids_tra[j].qids
          /\ \E k \in DOMAIN references :
                /\ references[k] = context_to_qids_ref[i].key
                /\ translations[k] = context_to_qids_tra[j].key

\* C5: the question pass appends the pair (reference question, translated
\* question) exactly for the keys whose id lists are the same sequence; lists
\* that overlap, or hold the same ids in another order, give no pair.
C5_QuestionJoin ==
    [][pc = "align_questions" =>
          AppendedJoin(references, translations, references', translations',
                       questions_to_qids_ref, questions_to_qids_tra, EqualSeq)]_vars

\* C5 witness: after the question pass, with a reference question and a
\* translated question that hold the same ids in a different order.
C5_Witness ==
    /\ pc = "align_answers"
    /\ Len(references) > 0
    /\ \E i \in DOMAIN questions_to_qids_ref : \E j \in DOMAIN questions_to_qids_tra :
          /\ Range(questions_to_qids_ref[i].qids) = Range(questions_to_qids_tra[j].qids)
          /\ Len(questions_to_qids_ref[i].qids) = Len(questions_to_qids_tra[j].qids)
          /\ questions_to_qids_ref[i].qids # questions_to_qids_tra[j].qids

\* The lists that the context and question passes accumulate when the
\* datasets are indexed with answers included
WithAnswersRef == content_to_qids(dataset_ref, FALSE)
WithAnswersTra == content_to_qids(dataset_tra, FALSE)
WithAnswersVisits ==
    ContextVisits(WithAnswersRef.context_to_qids, WithAnswersTra.context_to_qids)
    \o QuestionVisits(WithAnswersRef.questions_to_qids, WithAnswersTra.questions_to_qids)

\* C8: with answers excluded, the answer index of each dataset is empty, the
\* context and question indices and the lists of the context and question
\* passes are those got with answers included, and the answer pass appends
\* nothing to them.
C8_NoEvalAnswers ==
    no_eval_answers =>
        /\ pc # "index_ref" =>
              /\ answers_to_qids_ref = <<>>
              /\ context_to_qids_ref = WithAnswersRef.context_to_qids
              /\ questions_to_qids_ref = WithAnswersRef.questions_to_qids
        /\ pc \notin {"index_ref", "index_tra"} =>
              /\ answers_to_qids_tra = <<>>
              /\ context_to_qids_tra = WithAnswersTra.context_to_qids
              /\ questions_to_qids_tra = WithAnswersTra.questions_to_qids
        /\ pc \in {"align_answers", "dedup"} =>
              /\ references = RefsOf(WithAnswersVisits)
              /\ translations = TrasOf(WithAnswersVisits)

\* C8 witness: answers excluded, the answer pass done, context and question
\* pairs accumulated, and datasets whose answer indices would not be empty.
C8_Witness ==
    /\ no_eval_answers
    /\ pc = "dedup"
    /\ Len(references) >= 2
    /\ WithAnswersRef.answers_to_qids # <<>>
    /\ WithAnswersTra.answers_to_qids # <<>>

\* The place of the first occurrence of item in items
FirstAt(items, item) ==
    CHOOSE k \in DOMAIN items :
        items[k] = item /\ \A j \in 1..(k - 1) : items[j] # item

\* out holds each item of items once, in the order of the first occurrences
FirstOccurrences(out, items) ==
    /\ Range(out) = Range(items)
    /\ \A i, j \in DOMAIN out :
          i < j => FirstAt(items, out[i]) < FirstAt(items, out[j])

\* C9: the returned references are the accumulated references with every later
\* duplicate removed and the order of the first occurrences kept, and the
\* returned translations are so got from the accumulated translations alone.
C9_Dedup ==
    [][pc = "dedup" =>
          /\ FirstOccurrences(references', references)
          /\ FirstOccurrences(translations', translations)]_vars

\* C9 witness: the accumulated translations u, a, u, x have been returned as
\* u, a, x while the four references, all different, were all kept.
C9_Witness ==
    /\ pc = "assert"
    /\ references = <<<<"a">>, <<"b">>, <<"q">>, <<"x">>>>
    /\ translations = <<<<"u">>, <<"a">>, <<"x">>>>

---------------------------------------------------------------------------
(* Properties of the main script (checked under Spec) *)

NothingWritten ==
    references_txt = <<>> /\ translations_txt = <<>> /\ score = <<>> /\ bleu_txt = <<>>

\* C7: when the lists returned by align_content differ in length the script
\* ends at the assertion, it takes no later step, no file is written and no
\* score computed; otherwise the assertion passes, the two text files are
\* written (together) before the score is computed, and bleu.txt is written
\* last, after the score.
C7_AbortBeforeOutput ==
    /\ [][pc = "assert" =>
             (pc' = "AssertionError" <=> Len(references) # Len(translations))]_vars
    /\ [][pc # "AssertionError"]_vars
    /\ [](pc = "AssertionError" => NothingWritten)
    /\ [](references_txt # <<>> <=> translations_txt # <<>>)
    /\ [](references_txt # <<>> => Len(references) = Len(translations))
    /\ [](score # <<>> => references_txt # <<>>)
    /\ [](bleu_txt # <<>> => (score # <<>> /\ pc = "done"))

\* C7 witness: the script has ended at the assertion, on lists of different
\* lengths.
C7_Witness ==
    pc = "AssertionError" /\ Len(references) # Len(translations)

====
